---- MODULE Spec2Model ----
(***************************************************************************)
(* A model of the movie API: the SQL-backed movie store (MovieModel:       *)
(* Insert, Get, Update, Delete), the store constructor NewModel, and the   *)
(* HTTP handlers of cmd/api/movie.go that call it.                         *)
(*                                                                         *)
(* The database executes one statement atomically, so one store call is    *)
(* one step.  The code of a handler between two store calls touches only   *)
(* the request's own data and is part of the step of the store call that   *)
(* precedes it.  Only updateMovieHandler makes two store calls (Get, then  *)
(* Update); a request between the two occupies a slot of req.              *)
(*                                                                         *)
(* A statement whose context has expired is cancelled without effect and   *)
(* the call returns the context's error (spec section 5).                  *)
(***************************************************************************)
EXTENDS Integers, Sequences, FiniteSets, TLC

VARIABLES
    m,        \* the store behind app.model.Movie: a MovieModel value
    table,    \* the movie table: id -> row, for the ids that have a row
    nextId,   \* the next value of the id sequence of the table
    req,      \* the PATCH requests between their Get and their Update
    last,     \* the request that completed last: what it called and answered
    applied,  \* history: per id, the versions the successful updates were based on
    nUpdates  \* history: the number of successful updates of this run

vars == <<m, table, nextId, req, last, applied, nUpdates>>

(***************************** bounds ***********************************)
\* ids the sequence hands out in one run
MaxId == 1
\* successful updates in one run
MaxUpdates == 2
\* the configured per-query timeout (spec section 6, Configuration), in ticks
CfgTimeout == 1
\* the version of the row a database of an earlier run holds (SpecStored)
MaxStoredVersion == 10

\* the slots of the PATCH requests in flight at once
Req == {1, 2}
\* the time the database takes to answer one statement: none, or as long as
\* the configured timeout, which is too late
Latencies == {0, CfgTimeout}
\* the id arguments of a request: invalid ones, and every id the table may hold
IdArgs == (0 - 1)..MaxId

(***************************** errors ***********************************)
Nil == "nil"
ErrRecordNotFound == "record not found"
ErrEditConflict == "edit conflict"
ErrDeadline == "context deadline exceeded"

(***************************** records **********************************)
ZeroMovie ==
    [ID |-> 0, CreatedAt |-> 0, Title |-> "", Year |-> 0, Runtime |-> 0,
     Genres |-> <<>>, Version |-> 0]

CurrentYear == 2026

\* The JSON body of a request: a field absent from the body is the empty set
\* (a nil pointer, a nil slice), a field present is the set of its value.
NoInput == [Title |-> {}, Year |-> {}, Runtime |-> {}, Genres |-> {}]
FullInput(t) ==
    [Title |-> {t}, Year |-> {1999}, Runtime |-> {100}, Genres |-> {<<"drama">>}]
\* bodies of POST /movies
CreateInputs == {FullInput("A"), FullInput(""), NoInput}
\* bodies of PATCH /movies/{id}
PatchInputs ==
    {NoInput, [NoInput EXCEPT !.Title = {"B"}], [NoInput EXCEPT !.Title = {""}]}
\* what a failed decode leaves in the input: the fields decoded before the error
PartialInputs == {NoInput, [NoInput EXCEPT !.Title = {"B"}]}

Filters ==
    {[Page |-> 1, PageSize |-> 20, Sort |-> "id"],
     [Page |-> 0, PageSize |-> 20, Sort |-> "id"],
     [Page |-> 1, PageSize |-> 101, Sort |-> "-year"],
     [Page |-> 1, PageSize |-> 20, Sort |-> "rating"]}

(************************ collaborators of the handlers *****************)
\* ValidateMovie: the rules of spec section 4.2 (every title of the model is
\* shorter than the 500 bytes allowed).
ValidateMovie(movie) ==
    /\ movie.Title # ""
    /\ movie.Year # 0 /\ movie.Year >= 1888 /\ movie.Year <= CurrentYear
    /\ movie.Runtime > 0
    /\ Len(movie.Genres) >= 1 /\ Len(movie.Genres) <= 5
    /\ \A i, j \in 1..Len(movie.Genres) : movie.Genres[i] = movie.Genres[j] => i = j

\* ValidateFilter: the rules of spec section 4.3.
ValidateFilter(f) ==
    /\ f.Page >= 1 /\ f.Page <= 10000000
    /\ f.PageSize >= 1 /\ f.PageSize <= 100
    /\ f.Sort \in {"id", "title", "year", "runtime", "-id", "-title", "-year", "-runtime"}

\* copyProperties: every field present in the body replaces the movie's.
copyProperties(input, movie) ==
    [movie EXCEPT
        !.Title = IF input.Title = {} THEN @ ELSE CHOOSE t \in input.Title : TRUE,
        !.Year = IF input.Year = {} THEN @ ELSE CHOOSE y \in input.Year : TRUE,
        !.Runtime = IF input.Runtime = {} THEN @ ELSE CHOOSE x \in input.Runtime : TRUE,
        !.Genres = IF input.Genres = {} THEN @ ELSE CHOOSE g \in input.Genres : TRUE]

\* The response helpers, by the status each one writes.
StatusOf(helper) ==
    CASE helper = "writeJSON StatusOK" -> 200
      [] helper = "writeJSON StatusCreated" -> 201
      [] helper = "badRequestResponse" -> 400
      [] helper = "notFoundResponse" -> 404
      [] helper = "editConflictResponse" -> 409
      [] helper = "failedValidationResponse" -> 422
      [] helper = "serverErrorResponse" -> 500

(******************************* strconv ********************************)
DigitChars ==
    <<"0", "1", "2", "3", "4", "5", "6", "7", "8", "9", "a", "b", "c", "d", "e", "f",
      "g", "h", "i", "j", "k", "l", "m", "n", "o", "p", "q", "r", "s", "t", "u", "v">>

\* strconv.FormatInt(n, base) for n >= 0: the digits of n in the base, as a
\* sequence of characters.
RECURSIVE FormatInt(_, _)
FormatInt(n, base) ==
    IF n < base THEN <<DigitChars[n + 1]>>
    ELSE Append(FormatInt(n \div base, base), DigitChars[(n % base) + 1])

\* The integer a header of decimal digits denotes.
RECURSIVE ParseDecimal(_)
ParseDecimal(h) ==
    IF h = <<>> THEN 0
    ELSE 10 * ParseDecimal(SubSeq(h, 1, Len(h) - 1))
         + ((CHOOSE d \in 1..10 : DigitChars[d] = h[Len(h)]) - 1)

\* X-Expected-Version headers a client sends for a record at version v: none,
\* the decimal of v and of the version after it, and the text the handler
\* compares with.
Headers(v) ==
    {<<>>, FormatInt(v, 32)} \cup {FormatInt(k, 10) : k \in {v, v + 1}}

(******************************* the store ******************************)
\* NewModel(db): the MovieModel it builds names DB only, so ContextTimeout
\* keeps the zero value of time.Duration.
NewModel == [ContextTimeout |-> 0]

\* A MovieModel built with the configured timeout.
MovieModelWith(timeout) == [ContextTimeout |-> timeout]

\* context.WithTimeout(context.Background(), m.ContextTimeout): the statement
\* is executed when the database answers before the deadline; a timeout of zero
\* has expired when the call is made.
InTime(mm, lat) == lat < mm.ContextTimeout

\* Insert with two arguments of the statement in each other's place.
InsertSwapsColumns(mm, tbl, nid, movie, lat) ==
    IF ~InTime(mm, lat)
    THEN [table |-> tbl, nextId |-> nid, movie |-> movie, err |-> ErrDeadline,
          queried |-> TRUE]
    ELSE LET row == [ID |-> nid, CreatedAt |-> nid, Title |-> movie.Title,
                     Year |-> movie.Runtime, Runtime |-> movie.Year,
                     Genres |-> movie.Genres, Version |-> 1]
         IN [table |-> tbl @@ (nid :> row), nextId |-> nid + 1,
             movie |-> [movie EXCEPT !.ID = row.ID, !.CreatedAt = row.CreatedAt,
                                     !.Version = row.Version],
             err |-> Nil, queried |-> TRUE]

Insert(mm, tbl, nid, movie, lat) ==
    IF ~InTime(mm, lat)
    THEN [table |-> tbl, nextId |-> nid, movie |-> movie, err |-> ErrDeadline,
          queried |-> TRUE]
    ELSE LET row == [ID |-> nid, CreatedAt |-> nid, Title |-> movie.Title,
                     Year |-> movie.Year, Runtime |-> movie.Runtime,
                     Genres |-> movie.Genres, Version |-> 1]
         IN [table |-> tbl @@ (nid :> row), nextId |-> nid + 1,
             movie |-> [movie EXCEPT !.ID = row.ID, !.CreatedAt = row.CreatedAt,
                                     !.Version = row.Version],
             err |-> Nil, queried |-> TRUE]

\* Get that rejects negative ids only.
GetFromZero(mm, tbl, id, lat) ==
    IF id < 0 THEN [movie |-> ZeroMovie, err |-> ErrRecordNotFound, queried |-> FALSE]
    ELSE IF ~InTime(mm, lat)
    THEN [movie |-> ZeroMovie, err |-> ErrDeadline, queried |-> TRUE]
    ELSE IF id \notin DOMAIN tbl
    THEN [movie |-> ZeroMovie, err |-> ErrRecordNotFound, queried |-> TRUE]
    ELSE [movie |-> tbl[id], err |-> Nil, queried |-> TRUE]

Get(mm, tbl, id, lat) ==
    IF id < 1 THEN [movie |-> ZeroMovie, err |-> ErrRecordNotFound, queried |-> FALSE]
    ELSE IF ~InTime(mm, lat)
    THEN [movie |-> ZeroMovie, err |-> ErrDeadline, queried |-> TRUE]
    ELSE IF id \notin DOMAIN tbl
    THEN [movie |-> ZeroMovie, err |-> ErrRecordNotFound, queried |-> TRUE]
    ELSE [movie |-> tbl[id], err |-> Nil, queried |-> TRUE]

\* WHERE id = $5, without the version.
UpdateMatchesIdOnly(tbl, movie) == movie.ID \in DOMAIN tbl

\* WHERE id = $5 and version = $6
UpdateMatches(tbl, movie) ==
    movie.ID \in DOMAIN tbl /\ tbl[movie.ID].Version = movie.Version

\* Update whose statement does not raise the version.
UpdateKeepsVersion(mm, tbl, movie, lat) ==
    IF ~InTime(mm, lat)
    THEN [table |-> tbl, movie |-> movie, err |-> ErrDeadline, queried |-> TRUE]
    ELSE IF ~UpdateMatches(tbl, movie)
    THEN [table |-> tbl, movie |-> movie, err |-> ErrEditConflict, queried |-> TRUE]
    ELSE LET row == [tbl[movie.ID] EXCEPT
                        !.Title = movie.Title, !.Year = movie.Year,
                        !.Runtime = movie.Runtime, !.Genres = movie.Genres]
         IN [table |-> [tbl EXCEPT ![movie.ID] = row],
             movie |-> [movie EXCEPT !.Version = row.Version],
             err |-> Nil, queried |-> TRUE]

\* Update that does not scan the returned version into the caller's record.
UpdateDropsVersion(mm, tbl, movie, lat) ==
    IF ~InTime(mm, lat)
    THEN [table |-> tbl, movie |-> movie, err |-> ErrDeadline, queried |-> TRUE]
    ELSE IF ~UpdateMatches(tbl, movie)
    THEN [table |-> tbl, movie |-> movie, err |-> ErrEditConflict, queried |-> TRUE]
    ELSE LET row == [tbl[movie.ID] EXCEPT
                        !.Title = movie.Title, !.Year = movie.Year,
                        !.Runtime = movie.Runtime, !.Genres = movie.Genres,
                        !.Version = @ + 1]
         IN [table |-> [tbl EXCEPT ![movie.ID] = row], movie |-> movie,
             err |-> Nil, queried |-> TRUE]

Update(mm, tbl, movie, lat) ==
    IF ~InTime(mm, lat)
    THEN [table |-> tbl, movie |-> movie, err |-> ErrDeadline, queried |-> TRUE]
    ELSE IF ~UpdateMatches(tbl, movie)
    THEN [table |-> tbl, movie |-> movie, err |-> ErrEditConflict, queried |-> TRUE]
    ELSE LET row == [tbl[movie.ID] EXCEPT
                        !.Title = movie.Title, !.Year = movie.Year,
                        !.Runtime = movie.Runtime, !.Genres = movie.Genres,
                        !.Version = @ + 1]
         IN [table |-> [tbl EXCEPT ![movie.ID] = row],
             movie |-> [movie EXCEPT !.Version = row.Version],
             err |-> Nil, queried |-> TRUE]

Delete(mm, tbl, id, lat) ==
    IF id < 1 THEN [table |-> tbl, err |-> ErrRecordNotFound, queried |-> FALSE]
    ELSE IF ~InTime(mm, lat)
    THEN [table |-> tbl, err |-> ErrDeadline, queried |-> TRUE]
    ELSE IF id \notin DOMAIN tbl
    THEN [table |-> tbl, err |-> ErrRecordNotFound, queried |-> TRUE]
    ELSE [table |-> [i \in DOMAIN tbl \ {id} |-> tbl[i]], err |-> Nil,
          queried |-> TRUE]

\* GetAll (spec section 4.4) reads the table; the handler sees its error only.
GetAll(mm, tbl, lat) ==
    IF ~InTime(mm, lat) THEN [err |-> ErrDeadline, queried |-> TRUE]
    ELSE [err |-> Nil, queried |-> TRUE]

(****************************** the handlers ****************************)
\* What a completed request leaves behind: the handler, its id argument, the
\* store operations it called, the result of the last of them (its error,
\* whether it issued a query, the time the database took; -1 without a query),
\* whether validation passed, the responses written, the caller's movie record
\* after the last store call, and, for a request the X-Expected-Version check
\* rejected, the header and the version it was compared with.
Done(h, id, calls, err, queried, lat, valid, resp, movie, hdr, ver) ==
    [h |-> h, id |-> id, calls |-> calls, err |-> err, queried |-> queried,
     lat |-> IF queried THEN lat ELSE 0 - 1, valid |-> valid, resp |-> resp,
     movie |-> movie, hdr |-> hdr, ver |-> ver]

NoRequest == Done("none", 0, <<>>, Nil, FALSE, 0, TRUE, <<>>, ZeroMovie, <<>>, 0)

Idle == [pc |-> "idle", movie |-> ZeroMovie, resp |-> <<>>]

\* showMovieHandler and updateMovieHandler, on an error of Get.
GetErrorResponse(err) ==
    IF err = ErrRecordNotFound THEN "notFoundResponse" ELSE "serverErrorResponse"

\* The switch on the error of Update without the case of the edit conflict.
UpdateErrorResponseNoCase(err) == "serverErrorResponse"

\* updateMovieHandler, on an error of Update.
UpdateErrorResponse(err) ==
    IF err = ErrEditConflict THEN "editConflictResponse" ELSE "serverErrorResponse"

\* deleteMovieHandler, on an error of Delete.
DeleteErrorResponse(err) ==
    IF err = ErrRecordNotFound THEN "notFoundResponse" ELSE "serverErrorResponse"

\* The X-Expected-Version check of updateMovieHandler.
ExpectedVersionConflict(hdr, version) ==
    hdr # <<>> /\ hdr # FormatInt(version, 32)

\* The handlers end with app.writeJSON; encoding a movie or a message does not
\* fail, so the serverErrorResponse that follows a failed writeJSON is never
\* written.

\* createMovieHandler that inserts the movie before it validates it.
createMovieHandlerInsertsFirst(mm, tbl, nid, decoded, input, lat) ==
    IF ~decoded
    THEN [table |-> tbl, nextId |-> nid,
          last |-> Done("create", 0, <<>>, Nil, FALSE, lat, TRUE,
                        <<"badRequestResponse">>, ZeroMovie, <<>>, 0)]
    ELSE IF input.Title = {} \/ input.Year = {} \/ input.Runtime = {}
    THEN [table |-> tbl, nextId |-> nid,
          last |-> Done("create", 0, <<>>, Nil, FALSE, lat, TRUE, <<>>, ZeroMovie,
                        <<>>, 0)]
    ELSE LET movie == copyProperties(input, ZeroMovie)
             ins == Insert(mm, tbl, nid, movie, lat)
         IN [table |-> ins.table, nextId |-> ins.nextId,
             last |-> Done("create", 0, <<"Insert">>, ins.err, ins.queried, lat,
                           ValidateMovie(movie),
                           IF ins.err # Nil THEN <<"serverErrorResponse">>
                           ELSE IF ~ValidateMovie(movie)
                           THEN <<"failedValidationResponse">>
                           ELSE <<"writeJSON StatusCreated">>,
                           ins.movie, <<>>, 0)]

\* createMovieHandler.  A body without title, year or runtime leaves a nil
\* pointer that the handler dereferences: it panics before it validates, calls
\* the store or writes a response.
createMovieHandler(mm, tbl, nid, decoded, input, lat) ==
    IF ~decoded
    THEN [table |-> tbl, nextId |-> nid,
          last |-> Done("create", 0, <<>>, Nil, FALSE, lat, TRUE,
                        <<"badRequestResponse">>, ZeroMovie, <<>>, 0)]
    ELSE IF input.Title = {} \/ input.Year = {} \/ input.Runtime = {}
    THEN [table |-> tbl, nextId |-> nid,
          last |-> Done("create", 0, <<>>, Nil, FALSE, lat, TRUE, <<>>, ZeroMovie,
                        <<>>, 0)]
    ELSE LET movie == copyProperties(input, ZeroMovie)
         IN IF ~ValidateMovie(movie)
            THEN [table |-> tbl, nextId |-> nid,
                  last |-> Done("create", 0, <<>>, Nil, FALSE, lat, FALSE,
                                <<"failedValidationResponse">>, movie, <<>>, 0)]
            ELSE LET ins == Insert(mm, tbl, nid, movie, lat)
                 IN [table |-> ins.table, nextId |-> ins.nextId,
                     last |-> Done("create", 0, <<"Insert">>, ins.err, ins.queried,
                                   lat, TRUE,
                                   IF ins.err # Nil THEN <<"serverErrorResponse">>
                                   ELSE <<"writeJSON StatusCreated">>,
                                   ins.movie, <<>>, 0)]

showMovieHandler(mm, tbl, parsed, id, lat) ==
    IF ~parsed
    THEN Done("show", 0, <<>>, Nil, FALSE, lat, TRUE, <<"notFoundResponse">>,
              ZeroMovie, <<>>, 0)
    ELSE LET got == Get(mm, tbl, id, lat)
         IN Done("show", id, <<"Get">>, got.err, got.queried, lat, TRUE,
                 IF got.err # Nil THEN <<GetErrorResponse(got.err)>>
                 ELSE <<"writeJSON StatusOK">>,
                 got.movie, <<>>, 0)

\* updateMovieHandler up to its call of Update: done says that the request
\* has been answered; otherwise movie is the record to update and resp the
\* responses written so far.
updateMovieFetch(mm, tbl, parsed, id, lat, hdr, decoded, input) ==
    IF ~parsed
    THEN [done |-> TRUE, movie |-> ZeroMovie, resp |-> <<"notFoundResponse">>,
          last |-> Done("update", 0, <<>>, Nil, FALSE, lat, TRUE,
                        <<"notFoundResponse">>, ZeroMovie, <<>>, 0)]
    ELSE LET got == Get(mm, tbl, id, lat)
         IN IF got.err # Nil
            THEN [done |-> TRUE, movie |-> got.movie,
                  resp |-> <<GetErrorResponse(got.err)>>,
                  last |-> Done("update", id, <<"Get">>, got.err, got.queried, lat,
                                TRUE, <<GetErrorResponse(got.err)>>, got.movie,
                                <<>>, 0)]
            ELSE IF ExpectedVersionConflict(hdr, got.movie.Version)
            THEN [done |-> TRUE, movie |-> got.movie,
                  resp |-> <<"editConflictResponse">>,
                  last |-> Done("update", id, <<"Get">>, got.err, got.queried, lat,
                                TRUE, <<"editConflictResponse">>, got.movie, hdr,
                                got.movie.Version)]
            ELSE LET resp == IF decoded THEN <<>> ELSE <<"badRequestResponse">>
                     movie == copyProperties(input, got.movie)
                 IN IF ~ValidateMovie(movie)
                    THEN [done |-> TRUE, movie |-> movie,
                          resp |-> Append(resp, "failedValidationResponse"),
                          last |-> Done("update", id, <<"Get">>, got.err,
                                        got.queried, lat, FALSE,
                                        Append(resp, "failedValidationResponse"),
                                        movie, <<>>, 0)]
                    ELSE [done |-> FALSE, movie |-> movie, resp |-> resp,
                          last |-> NoRequest]

\* updateMovieHandler from its call of Update on.
updateMovieStore(mm, tbl, movie, resp, lat) ==
    LET upd == Update(mm, tbl, movie, lat)
    IN [table |-> upd.table,
        last |-> Done("update", movie.ID, <<"Get", "Update">>, upd.err, upd.queried,
                      lat, TRUE,
                      Append(resp, IF upd.err # Nil THEN UpdateErrorResponse(upd.err)
                                   ELSE "writeJSON StatusOK"),
                      upd.movie, <<>>, 0)]

deleteMovieHandler(mm, tbl, parsed, id, lat) ==
    IF ~parsed
    THEN [table |-> tbl,
          last |-> Done("delete", 0, <<>>, Nil, FALSE, lat, TRUE,
                        <<"notFoundResponse">>, ZeroMovie, <<>>, 0)]
    ELSE LET del == Delete(mm, tbl, id, lat)
         IN [table |-> del.table,
             last |-> Done("delete", id, <<"Delete">>, del.err, del.queried, lat,
                           TRUE,
                           IF del.err # Nil THEN <<DeleteErrorResponse(del.err)>>
                           ELSE <<"writeJSON StatusOK">>,
                           ZeroMovie, <<>>, 0)]

listMoviesHandler(mm, tbl, filter, lat) ==
    IF ~ValidateFilter(filter)
    THEN Done("list", 0, <<>>, Nil, FALSE, lat, FALSE,
              <<"failedValidationResponse">>, ZeroMovie, <<>>, 0)
    ELSE LET all == GetAll(mm, tbl, lat)
         IN Done("list", 0, <<"GetAll">>, all.err, all.queried, lat, TRUE,
                 IF all.err # Nil THEN <<"serverErrorResponse">>
                 ELSE <<"writeJSON StatusOK">>,
                 ZeroMovie, <<>>, 0)

(******************************* the steps ******************************)
\* A database of this run: no rows yet.
Init ==
    /\ m \in {NewModel, MovieModelWith(CfgTimeout)}
    /\ table = <<>>
    /\ nextId = 1
    /\ req = [r \in Req |-> Idle]
    /\ last = NoRequest
    /\ applied = [i \in 1..MaxId |-> <<>>]
    /\ nUpdates = 0

\* A database an earlier run left: one row, updated MaxStoredVersion - 2 or
\* MaxStoredVersion - 1 times.
InitStored ==
    /\ m \in {NewModel, MovieModelWith(CfgTimeout)}
    /\ \E v \in {MaxStoredVersion - 1, MaxStoredVersion} :
          /\ table = (1 :> [ID |-> 1, CreatedAt |-> 1, Title |-> "A", Year |-> 1999,
                            Runtime |-> 100, Genres |-> <<"drama">>, Version |-> v])
          /\ applied = [i \in 1..MaxId |-> IF i = 1 THEN [k \in 1..(v - 1) |-> k]
                                          ELSE <<>>]
    /\ nextId = 2
    /\ req = [r \in Req |-> Idle]
    /\ last = NoRequest
    /\ nUpdates = 0

\* The inputs of a step are drawn only where the handler reads them: a request
\* whose id does not parse has no id, a call that issues no query no latency.
IdsOf(parsed) == IF parsed THEN IdArgs ELSE {0}
LatenciesOf(asked) == IF asked THEN Latencies ELSE {0}

CreateMovie ==
    \E decoded \in BOOLEAN :
    \E input \in (IF decoded THEN CreateInputs ELSE {NoInput}) :
    \E lat \in LatenciesOf(decoded /\ input.Title \notin {{}, {""}}) :
        LET out == createMovieHandler(m, table, nextId, decoded, input, lat)
        IN /\ out.nextId <= MaxId + 1
           /\ table' = out.table
           /\ nextId' = out.nextId
           /\ last' = out.last
           /\ UNCHANGED <<m, req, applied, nUpdates>>

ShowMovie ==
    \E parsed \in BOOLEAN :
    \E id \in IdsOf(parsed) :
    \E lat \in LatenciesOf(parsed /\ id >= 1) :
        /\ last' = showMovieHandler(m, table, parsed, id, lat)
        /\ UNCHANGED <<m, table, nextId, req, applied, nUpdates>>

\* The slot a new PATCH request takes: the lowest idle one.
FreeSlot(r) ==
    /\ req[r].pc = "idle"
    /\ \A s \in Req : s < r => req[s].pc # "idle"

UpdateMovieFetch(r) ==
    /\ FreeSlot(r)
    /\ \E parsed \in BOOLEAN :
       \E id \in IdsOf(parsed) :
       \E lat \in LatenciesOf(parsed /\ id >= 1) :
         LET found == parsed /\ id \in DOMAIN table /\ InTime(m, lat)
         IN \E hdr \in (IF found THEN Headers(table[id].Version) ELSE {<<>>}) :
            \E decoded \in (IF found THEN BOOLEAN ELSE {TRUE}) :
            \E input \in (IF ~found THEN {NoInput}
                          ELSE IF decoded THEN PatchInputs ELSE PartialInputs) :
              LET out == updateMovieFetch(m, table, parsed, id, lat, hdr, decoded,
                                          input)
              IN /\ req' = [req EXCEPT ![r] = IF out.done THEN Idle
                                              ELSE [pc |-> "got", movie |-> out.movie,
                                                    resp |-> out.resp]]
                 /\ last' = IF out.done THEN out.last ELSE last
                 /\ UNCHANGED <<m, table, nextId, applied, nUpdates>>

UpdateMovieStore(r) ==
    /\ req[r].pc = "got"
    /\ \E lat \in Latencies :
        LET out == updateMovieStore(m, table, req[r].movie, req[r].resp, lat)
            ok == out.last.err = Nil
        IN /\ ok => nUpdates < MaxUpdates
           /\ table' = out.table
           /\ last' = out.last
           /\ req' = [req EXCEPT ![r] = Idle]
           /\ applied' = IF ok
                         THEN [applied EXCEPT ![req[r].movie.ID] =
                                                  Append(@, req[r].movie.Version)]
                         ELSE applied
           /\ nUpdates' = IF ok THEN nUpdates + 1 ELSE nUpdates
           /\ UNCHANGED <<m, nextId>>

DeleteMovie ==
    \E parsed \in BOOLEAN :
    \E id \in IdsOf(parsed) :
    \E lat \in LatenciesOf(parsed /\ id >= 1) :
        LET out == deleteMovieHandler(m, table, parsed, id, lat)
        IN /\ table' = out.table
           /\ last' = out.last
           /\ UNCHANGED <<m, nextId, req, applied, nUpdates>>

ListMovies ==
    \E filter \in Filters :
    \E lat \in LatenciesOf(ValidateFilter(filter)) :
        /\ last' = listMoviesHandler(m, table, filter, lat)
        /\ UNCHANGED <<m, table, nextId, req, applied, nUpdates>>

Next ==
    \/ CreateMovie
    \/ ShowMovie
    \/ \E r \in Req : UpdateMovieFetch(r)
    \/ \E r \in Req : UpdateMovieStore(r)
    \/ DeleteMovie
    \/ ListMovies

Spec == Init /\ [][Next]_vars

SpecStored == InitStored /\ [][Next]_vars

(******************************* the claims *****************************)
Range(f) == {f[i] : i \in DOMAIN f}

\* The step is the Update call of the request in slot r.
StoreStep(r) == req[r].pc = "got" /\ req'[r].pc = "idle"

\* The response written last for the completed request.
Answer == StatusOf(last.resp[Len(last.resp)])

SameFields(a, b) ==
    /\ a.Title = b.Title
    /\ a.Year = b.Year
    /\ a.Runtime = b.Runtime
    /\ a.Genres = b.Genres

\* The movie a caller holds is not the stored one's version, or its row is gone.
Stale(tbl, movie) ==
    movie.ID \notin DOMAIN tbl \/ tbl[movie.ID].Version # movie.Version

InsertSucceeded == last.h = "create" /\ last.calls = <<"Insert">> /\ last.err = Nil
UpdateSucceeded ==
    last.h = "update" /\ last.calls = <<"Get", "Update">> /\ last.err = Nil

\* C1: Update called with a movie whose version is not the stored one, or whose
\* row is gone, never succeeds and leaves the table and the caller's record as
\* they were; the error is the edit conflict whenever the database executes the
\* statement (a statement that times out returns the context's error instead).
C1_StaleUpdateIsEditConflict ==
    [][\A r \in Req :
          StoreStep(r) /\ Stale(table, req[r].movie)
          => /\ last'.err \in {ErrEditConflict, ErrDeadline}
             /\ InTime(m, last'.lat) => last'.err = ErrEditConflict
             /\ table' = table
             /\ last'.movie = req[r].movie]_vars

C1_Witness ==
    /\ last.h = "update" /\ last.calls = <<"Get", "Update">>
    /\ last.err = ErrEditConflict
    /\ last.id \in DOMAIN table
    /\ table[last.id].Version > last.movie.Version

\* C2: of the PATCH requests that read one version of a record at most one
\* succeeds; its Update takes the record from that version to the next and
\* makes every other request holding that version stale; a request whose
\* version has been used gets the edit conflict (409) from an executed Update,
\* changes nothing, and every request calls Update once.
NoTwoWinners ==
    \A id \in DOMAIN applied :
        \A i, j \in 1..Len(applied[id]) : applied[id][i] = applied[id][j] => i = j

C2_OneWinnerPerVersion ==
    /\ []NoTwoWinners
    /\ [][\A r \in Req :
            StoreStep(r)
            => LET mv == req[r].movie
               IN /\ last'.calls = <<"Get", "Update">>
                  /\ req'[r] = Idle
                  /\ last'.err = Nil
                     => /\ table[mv.ID].Version = mv.Version
                        /\ table'[mv.ID].Version = mv.Version + 1
                        /\ \A s \in Req \ {r} :
                              req[s].pc = "got" /\ req[s].movie.ID = mv.ID
                              => Stale(table', req'[s].movie)
                  /\ mv.Version \in Range(applied[mv.ID])
                     => /\ last'.err # Nil
                        /\ table' = table
                        /\ InTime(m, last'.lat)
                           => /\ last'.err = ErrEditConflict
                              /\ StatusOf(last'.resp[Len(last'.resp)]) = 409]_vars

C2_Witness ==
    /\ last.h = "update" /\ last.calls = <<"Get", "Update">>
    /\ last.err = ErrEditConflict
    /\ last.movie.Version \in Range(applied[last.id])

\* C3: a successful Insert stores the movie under a fresh positive id at
\* version 1 and writes id, creation time and version back to the caller; the
\* Get of that id that follows it and that the database executes returns the
\* record with the same title, year, runtime and genres, version 1 and that id.
C3_GetAfterInsert ==
    /\ [](InsertSucceeded
          => /\ last.movie.ID >= 1
             /\ last.movie.Version = 1
             /\ last.movie.CreatedAt # ZeroMovie.CreatedAt
             /\ last.movie.ID \in DOMAIN table
             /\ table[last.movie.ID] = last.movie)
    /\ [][InsertSucceeded /\ last'.h = "show" /\ last'.id = last.movie.ID
          /\ InTime(m, last'.lat)
          => /\ last'.err = Nil
             /\ SameFields(last'.movie, last.movie)
             /\ last'.movie.Version = 1
             /\ last'.movie.ID = last.movie.ID
             /\ last'.movie.ID >= 1]_vars

C3_Witness ==
    /\ last.h = "show" /\ last.err = Nil
    /\ last.movie.Version = 1 /\ last.movie.ID >= 1
    /\ last.movie.Title = "A"
    /\ applied[last.id] = <<>>

\* C4: a successful Update raises the stored version by exactly 1, writes it
\* into the caller's record, stores the caller's fields and keeps id and
\* creation time; a stored record's version is 1 plus the number of its
\* successful updates; the executed Get that follows a successful Update
\* returns the updated fields and the new version.
C4_VersionCountsUpdates ==
    /\ [](\A id \in DOMAIN table : table[id].Version = 1 + Len(applied[id]))
    /\ [][\A r \in Req :
            StoreStep(r) /\ last'.err = Nil
            => LET mv == req[r].movie
               IN /\ table'[mv.ID].Version = table[mv.ID].Version + 1
                  /\ last'.movie.Version = table'[mv.ID].Version
                  /\ last'.movie.Version = mv.Version + 1
                  /\ SameFields(table'[mv.ID], mv)
                  /\ table'[mv.ID].ID = table[mv.ID].ID
                  /\ table'[mv.ID].CreatedAt = table[mv.ID].CreatedAt
                  /\ DOMAIN table' = DOMAIN table
                  /\ \A i \in DOMAIN table \ {mv.ID} : table'[i] = table[i]]_vars
    /\ [][UpdateSucceeded /\ last'.h = "show" /\ last'.id = last.id
          /\ InTime(m, last'.lat)
          => /\ last'.err = Nil
             /\ SameFields(last'.movie, last.movie)
             /\ last'.movie.Version = last.movie.Version]_vars

C4_Witness ==
    /\ last.h = "show" /\ last.err = Nil
    /\ last.movie.Version = 2
    /\ last.movie.Title = "B"
    /\ applied[last.id] = <<1>>

\* C5: Get and Delete called with an id below 1 return the not-found error
\* without a query, and the table stays as it is.
C5_NoQueryBelowOne ==
    [][last'.h \in {"show", "update", "delete"} /\ last'.calls # <<>>
       /\ last'.id < 1
       => /\ last'.err = ErrRecordNotFound
          /\ ~last'.queried
          /\ table' = table]_vars

C5_Witness ==
    /\ last.h = "delete" /\ last.calls = <<"Delete">>
    /\ last.id < 1
    /\ last.err = ErrRecordNotFound
    /\ DOMAIN table # {}

IsDecimal(h) == h # <<>> /\ \A i \in 1..Len(h) : \E d \in 1..10 : DigitChars[d] = h[i]

\* C6: the X-Expected-Version check rejects a request only when the integer
\* in the header differs from the version of the record: a header equal to the
\* current version is never rejected.
C6_HeaderIsIntegerEquality ==
    last.h = "update" /\ last.hdr # <<>> /\ IsDecimal(last.hdr)
    => ParseDecimal(last.hdr) # last.ver

\* C7: a store error is answered by the response of its kind, not-found by 404,
\* edit conflict by 409, any other by 500, and never by a success; a failed
\* validation is answered by 422.
C7_ErrorsMapToResponses ==
    /\ last.calls # <<>> /\ last.err # Nil
       => /\ Answer = (IF last.err = ErrRecordNotFound THEN 404
                       ELSE IF last.err = ErrEditConflict THEN 409
                       ELSE 500)
          /\ \A i \in 1..Len(last.resp) : StatusOf(last.resp[i]) \notin {200, 201}
    /\ ~last.valid => Answer = 422

C7_Witness ==
    /\ last.h = "update" /\ last.calls = <<"Get", "Update">>
    /\ last.err = ErrEditConflict
    /\ Answer = 409

\* C8 as claimed: no handler calls more than one store operation for a
\* request, and none when validation fails.
C8_OneStoreCall ==
    /\ Len(last.calls) <= 1
    /\ ~last.valid => last.calls = <<>>

\* C8 as amended: every handler but updateMovieHandler calls at most one store
\* operation, and none when decoding or validation fails; updateMovieHandler
\* calls Get and then at most one Update, and only Get when the header check
\* or validation fails; a success is answered after the handler's store calls.
C8_StoreCallsPerHandler ==
    /\ last.h = "create" => last.calls \in {<<>>, <<"Insert">>}
    /\ last.h = "show" => last.calls \in {<<>>, <<"Get">>}
    /\ last.h = "delete" => last.calls \in {<<>>, <<"Delete">>}
    /\ last.h = "list" => last.calls \in {<<>>, <<"GetAll">>}
    /\ last.h = "update" => last.calls \in {<<>>, <<"Get">>, <<"Get", "Update">>}
    /\ ~last.valid => last.calls = (IF last.h = "update" THEN <<"Get">> ELSE <<>>)
    /\ last.h # "update" /\ last.resp = <<"badRequestResponse">> => last.calls = <<>>
    /\ last.hdr # <<>> => last.calls = <<"Get">>
    /\ last.h # "none" /\ last.resp # <<>> /\ Answer \in {200, 201}
       => /\ last.err = Nil
          /\ last.calls = (CASE last.h = "create" -> <<"Insert">>
                             [] last.h = "show" -> <<"Get">>
                             [] last.h = "delete" -> <<"Delete">>
                             [] last.h = "list" -> <<"GetAll">>
                             [] last.h = "update" -> <<"Get", "Update">>)

C8_Witness ==
    /\ last.h = "update" /\ ~last.valid
    /\ last.calls = <<"Get">>
    /\ Answer = 422

\* C9: an operation of the store NewModel builds returns its normal result
\* when the database answers within the configured timeout, and the timeout
\* failure when it does not.
C9_BoundedByConfiguredTimeout ==
    m = NewModel /\ last.queried
    => (last.err = ErrDeadline <=> last.lat >= CfgTimeout)

\* C10: when updateMovieHandler cannot decode the body it writes the
\* bad-request response and stops: nothing else is written and Update is not
\* called.
C10_BadRequestStops ==
    last.h = "update" /\ "badRequestResponse" \in Range(last.resp)
    => /\ last.resp = <<"badRequestResponse">>
       /\ last.calls = <<"Get">>

====
